---- MODULE Spec2Model ----
(***************************************************************************)
(* Client.Exec of go-dockerclient (misc.go): the session coordinator, the  *)
(* upgrade-and-relay unit it launches with promise.Go, the two channels    *)
(* between them (hijacked, errCh) and the coordinator's deferred calls.    *)
(***************************************************************************)
EXTENDS Integers, Sequences, FiniteSets, TLC

VARIABLES
    opts,          \* the ExecOptions passed to Exec
    pc,            \* position of the coordinator (the goroutine running Exec)
    ret,           \* the value Exec returns
    returnCount,   \* how many times Exec has returned to its caller
    createErr,     \* the error c.do returned for the create call
    body,          \* response body of the create call
    id,            \* id.Id after json.Unmarshal
    doCalls,       \* requests issued through c.do, in order
    hijackCalls,   \* invocations of c.hijack2, with their arguments
    monitorCalls,  \* invocations of c.monitorTtySize, with their arguments
    resizeCalls,   \* number of resize requests issued by the size monitor
    printed,       \* messages written with fmt.Println / fmt.Printf
    unit,          \* position of the goroutine started by promise.Go
    unitErr,       \* the value hijack2 returns
    hijackedClosed,\* whether the hijacked channel has been closed
    errCh,         \* content of the errCh channel (capacity 1)
    errChWrites,   \* writers of errCh, one entry per send
    closer,        \* what the select received from hijacked
    defers,        \* stack of the deferred calls of Exec
    closedBy,      \* who invoked Close on the hijacked connection, in order
    upgrade,       \* outcome of the upgrade inside hijack2
    sawReady,      \* the coordinator received a connection from hijacked
    sawDone,       \* number of values the coordinator received from errCh
    monitorErr,    \* outcome of monitorTtySize
    repoTag,       \* the argument of ParseRepositoryTag
    parsePc,       \* position of a caller of ParseRepositoryTag
    repository,    \* first result of ParseRepositoryTag
    tag            \* second result of ParseRepositoryTag

vars == <<opts, pc, ret, returnCount, createErr, body, id, doCalls, hijackCalls,
          monitorCalls, resizeCalls, printed, unit, unitErr, hijackedClosed,
          errCh, errChWrites, closer, defers, closedBy, upgrade, sawReady,
          sawDone, monitorErr, repoTag, parsePc, repository, tag>>

\* ---------------------------------------------------------------- values

Nil == "nil"
None == "none"

\* the connection hijack2 obtains from a successful upgrade
Conn == "rwc"

ErrNoSuchContainer == "NoSuchContainer"
ErrNoId == "Couldn't get an operation id for the exec command"
MsgHijack == "Hijack did not finish (chan still open)"
MsgMonitor == "Error monitoring TTY size"

\* errors the collaborators can produce
TransportErrs == {"create: connection refused", "create: 500"}
JsonErr == "json: cannot unmarshal"
UpgradeErrs == {"upgrade: dial failed", "upgrade: bad handshake"}
RelayErrs == {"relay: broken pipe"}
MonitorErrs == {"monitor: ioctl failed"}

\* bound on the resize requests the size monitor issues in one session
MaxResize == 2

Containers == {"", "c1"}
\* "stdinFile" and "stdoutFile" are *os.File values open on a terminal,
\* "regularFile" is an *os.File open on a file on disk, the others are
\* readers and writers of other types
InputStreams == {"stdinFile", "regularFile", "inPipe"}
OutputStreams == {"stdoutFile", "outBuf"}
ErrorStreams == {"errBuf"}

\* the type assertion stream.(*os.File)
IsOsFile(s) == s \in {"stdinFile", "stdoutFile", "regularFile"}

\* file.Fd() of an *os.File output stream
Fd(s) == IF s = "stdoutFile" THEN 1 ELSE 0

ExecOptions ==
    [Container : Containers, Tty : BOOLEAN,
     InputStream : InputStreams, OutputStream : OutputStreams,
     ErrorStream : ErrorStreams]

\* response bodies of the create call
Bodies ==
    [wellFormed : {FALSE}, hasId : {FALSE}, Id : {""}]
      \cup [wellFormed : {TRUE}, hasId : {FALSE}, Id : {""}]
      \cup [wellFormed : {TRUE}, hasId : {TRUE}, Id : {"", "null", "number", "e1", "e2"}]

NoBody == [wellFormed |-> FALSE, hasId |-> FALSE, Id |-> None]

\* json.Unmarshal(body, &id) into struct{ Id string }
Unmarshal(b) ==
    IF ~b.wellFormed THEN [err |-> JsonErr, Id |-> ""]
    ELSE IF ~b.hasId THEN [err |-> Nil, Id |-> ""]
    ELSE IF b.Id = "null" THEN [err |-> Nil, Id |-> ""]
    ELSE IF b.Id = "number" THEN [err |-> JsonErr, Id |-> ""]
    ELSE [err |-> Nil, Id |-> b.Id]

CreatePath(name) == "/containers/" \o name \o "/exec"

StartPath(execId) == "/exec/" \o execId \o "/start"

\* ------------------------------------------------------------------ Init

\* the state of Exec at its entry, before its first statement
ExecEntry ==
    /\ pc = "entry"
    /\ ret = None
    /\ returnCount = 0
    /\ createErr = None
    /\ body = NoBody
    /\ id = ""
    /\ doCalls = <<>>
    /\ hijackCalls = <<>>
    /\ monitorCalls = <<>>
    /\ resizeCalls = 0
    /\ printed = <<>>
    /\ unit = "none"
    /\ unitErr = None
    /\ hijackedClosed = FALSE
    /\ errCh = <<>>
    /\ errChWrites = <<>>
    /\ closer = None
    /\ defers = <<>>
    /\ closedBy = <<>>
    /\ upgrade = None
    /\ sawReady = FALSE
    /\ sawDone = 0
    /\ monitorErr = None

\* no call of ParseRepositoryTag is under way
ParseIdle ==
    /\ repoTag = <<>>
    /\ parsePc = "idle"
    /\ repository = <<>>
    /\ tag = <<>>

Init ==
    /\ opts \in ExecOptions
    /\ ExecEntry
    /\ ParseIdle

parseVars == <<repoTag, parsePc, repository, tag>>
unitVars == <<unit, unitErr, hijackedClosed, errCh, errChWrites, hijackCalls, upgrade>>
envVars == <<createErr, doCalls, monitorCalls, resizeCalls, printed, monitorErr>>

\* a return statement: the result is set and the deferred calls start to run
ReturnWith(e) ==
    /\ ret' = e
    /\ pc' = "unwinding"

\* ----------------------------------------------------------- coordinator

\* Validate without the test for an empty container
Validate_NoCheck ==
    /\ pc = "entry"
    /\ pc' = "create"
    /\ ret' = ret
    /\ UNCHANGED parseVars
    /\ UNCHANGED <<opts, returnCount, body, id, closer, defers, closedBy,
                   sawReady, sawDone>>
    /\ UNCHANGED unitVars
    /\ UNCHANGED envVars

\* if opts.Container == "" { return &NoSuchContainer{...} }
Validate ==
    /\ pc = "entry"
    /\ IF opts.Container = ""
       THEN ReturnWith(ErrNoSuchContainer)
       ELSE pc' = "create" /\ ret' = ret
    /\ UNCHANGED parseVars
    /\ UNCHANGED <<opts, returnCount, body, id, closer, defers, closedBy,
                   sawReady, sawDone>>
    /\ UNCHANGED unitVars
    /\ UNCHANGED envVars

\* Create with the transport error replaced by another error
Create_WrapErr ==
    /\ pc = "create"
    /\ doCalls' = Append(doCalls, [method |-> "POST", path |-> CreatePath(opts.Container)])
    /\ \/ \E e \in TransportErrs :
            /\ createErr' = e
            /\ ReturnWith(ErrNoSuchContainer)
            /\ body' = body
       \/ \E b \in Bodies :
            /\ createErr' = Nil
            /\ body' = b
            /\ pc' = "decode"
            /\ ret' = ret
    /\ UNCHANGED parseVars
    /\ UNCHANGED <<opts, returnCount, id, closer, defers, closedBy, sawReady, sawDone>>
    /\ UNCHANGED unitVars
    /\ UNCHANGED <<monitorCalls, resizeCalls, printed, monitorErr>>

\* body, _, err := c.do("POST", path, opts); if err != nil { return err }
Create ==
    /\ pc = "create"
    /\ doCalls' = Append(doCalls, [method |-> "POST", path |-> CreatePath(opts.Container)])
    /\ \/ \E e \in TransportErrs :
            /\ createErr' = e
            /\ ReturnWith(e)
            /\ body' = body
       \/ \E b \in Bodies :
            /\ createErr' = Nil
            /\ body' = b
            /\ pc' = "decode"
            /\ ret' = ret
    /\ UNCHANGED parseVars
    /\ UNCHANGED <<opts, returnCount, id, closer, defers, closedBy, sawReady, sawDone>>
    /\ UNCHANGED unitVars
    /\ UNCHANGED <<monitorCalls, resizeCalls, printed, monitorErr>>

\* Decode without the test for an empty id
Decode_NoIdCheck ==
    /\ pc = "decode"
    /\ LET r == Unmarshal(body) IN
         /\ id' = r.Id
         /\ IF r.err # Nil
            THEN ReturnWith(r.err) /\ defers' = defers
            ELSE /\ pc' = "launch"
                 /\ ret' = ret
                 /\ defers' = Append(defers, "waitHijacked")
    /\ UNCHANGED parseVars
    /\ UNCHANGED <<opts, returnCount, body, closer, closedBy, sawReady, sawDone>>
    /\ UNCHANGED unitVars
    /\ UNCHANGED envVars

\* Decode without the deferred receive on hijacked
Decode_NoDefer ==
    /\ pc = "decode"
    /\ LET r == Unmarshal(body) IN
         /\ id' = r.Id
         /\ IF r.err # Nil
            THEN ReturnWith(r.err) /\ defers' = defers
            ELSE IF r.Id = ""
            THEN ReturnWith(ErrNoId) /\ defers' = defers
            ELSE /\ pc' = "launch"
                 /\ ret' = ret
                 /\ defers' = defers
    /\ UNCHANGED parseVars
    /\ UNCHANGED <<opts, returnCount, body, closer, closedBy, sawReady, sawDone>>
    /\ UNCHANGED unitVars
    /\ UNCHANGED envVars

\* json.Unmarshal, the empty-id test, make(chan io.Closer) and the first defer
Decode ==
    /\ pc = "decode"
    /\ LET r == Unmarshal(body) IN
         /\ id' = r.Id
         /\ IF r.err # Nil
            THEN ReturnWith(r.err) /\ defers' = defers
            ELSE IF r.Id = ""
            THEN ReturnWith(ErrNoId) /\ defers' = defers
            ELSE /\ pc' = "launch"
                 /\ ret' = ret
                 /\ defers' = Append(defers, "waitHijacked")
    /\ UNCHANGED parseVars
    /\ UNCHANGED <<opts, returnCount, body, closer, closedBy, sawReady, sawDone>>
    /\ UNCHANGED unitVars
    /\ UNCHANGED envVars

\* errCh = promise.Go(func() error { ... })
Launch ==
    /\ pc = "launch"
    /\ unit' = "started"
    /\ pc' = "select"
    /\ UNCHANGED parseVars
    /\ UNCHANGED <<opts, ret, returnCount, body, id, closer, defers, closedBy,
                   sawReady, sawDone>>
    /\ UNCHANGED <<unitErr, hijackedClosed, errCh, errChWrites, hijackCalls, upgrade>>
    /\ UNCHANGED envVars

\* SelectHijacked without the deferred Close
SelectHijacked_NoDefer ==
    /\ pc = "select"
    /\ \/ /\ unit = "sending"
          /\ closer' = Conn
          /\ unit' = "relaying"
          /\ sawReady' = TRUE
          /\ defers' = defers
       \/ /\ unit # "sending"
          /\ hijackedClosed
          /\ closer' = Nil
          /\ UNCHANGED <<unit, sawReady, defers>>
    /\ pc' = "tty"
    /\ UNCHANGED parseVars
    /\ UNCHANGED <<opts, ret, returnCount, body, id, closedBy, sawDone>>
    /\ UNCHANGED <<unitErr, hijackedClosed, errCh, errChWrites, hijackCalls, upgrade>>
    /\ UNCHANGED envVars

\* select { case closer := <-hijacked: if closer != nil { defer closer.Close() } }
\* A receive on hijacked completes when the unit is blocked in its send
\* (the channel is unbuffered) or when the channel has been closed.
SelectHijacked ==
    /\ pc = "select"
    /\ \/ /\ unit = "sending"
          /\ closer' = Conn
          /\ unit' = "relaying"
          /\ sawReady' = TRUE
          /\ defers' = Append(defers, "close")
       \/ /\ unit # "sending"
          /\ hijackedClosed
          /\ closer' = Nil
          /\ UNCHANGED <<unit, sawReady, defers>>
    /\ pc' = "tty"
    /\ UNCHANGED parseVars
    /\ UNCHANGED <<opts, ret, returnCount, body, id, closedBy, sawDone>>
    /\ UNCHANGED <<unitErr, hijackedClosed, errCh, errChWrites, hijackCalls, upgrade>>
    /\ UNCHANGED envVars

\* SelectErr without the return on a non-nil error
SelectErr_NoReturn ==
    /\ pc = "select"
    /\ errCh # <<>>
    /\ errCh' = Tail(errCh)
    /\ sawDone' = sawDone + 1
    /\ pc' = "tty"
    /\ ret' = ret
    /\ UNCHANGED parseVars
    /\ UNCHANGED <<opts, returnCount, body, id, closer, defers, closedBy, sawReady>>
    /\ UNCHANGED <<unit, unitErr, hijackedClosed, errChWrites, hijackCalls, upgrade>>
    /\ UNCHANGED envVars

\* select { case err := <-errCh: if err != nil { return err } }
SelectErr ==
    /\ pc = "select"
    /\ errCh # <<>>
    /\ errCh' = Tail(errCh)
    /\ sawDone' = sawDone + 1
    /\ IF Head(errCh) # Nil
       THEN ReturnWith(Head(errCh))
       ELSE pc' = "tty" /\ ret' = ret
    /\ UNCHANGED parseVars
    /\ UNCHANGED <<opts, returnCount, body, id, closer, defers, closedBy, sawReady>>
    /\ UNCHANGED <<unit, unitErr, hijackedClosed, errChWrites, hijackCalls, upgrade>>
    /\ UNCHANGED envVars

\* Monitor with a monitoring failure returned as the result of Exec
Monitor_Fatal ==
    /\ pc = "tty"
    /\ LET isTerminalIn == IsOsFile(opts.InputStream)
           isTerminalOut == IsOsFile(opts.OutputStream)
           outFd == IF isTerminalOut THEN Fd(opts.OutputStream) ELSE 0
       IN IF opts.Tty /\ isTerminalIn
          THEN /\ monitorCalls' = Append(monitorCalls,
                     [id |-> id, isTerminalIn |-> TRUE,
                      isTerminalOut |-> isTerminalOut, outFd |-> outFd])
               /\ \E r \in {Nil} \cup MonitorErrs :
                     /\ monitorErr' = r
                     /\ printed' = printed
                     /\ IF r # Nil THEN ReturnWith(r)
                        ELSE pc' = "wait" /\ ret' = ret
          ELSE /\ UNCHANGED <<monitorCalls, monitorErr, printed, ret>>
               /\ pc' = "wait"
    /\ UNCHANGED parseVars
    /\ UNCHANGED <<opts, returnCount, body, id, closer, defers, closedBy,
                   sawReady, sawDone, createErr, doCalls, resizeCalls>>
    /\ UNCHANGED unitVars

\* the two type assertions and
\* if opts.Tty && isTerminalIn { if err := c.monitorTtySize(...); err != nil { Printf } }
Monitor ==
    /\ pc = "tty"
    /\ LET isTerminalIn == IsOsFile(opts.InputStream)
           isTerminalOut == IsOsFile(opts.OutputStream)
           outFd == IF isTerminalOut THEN Fd(opts.OutputStream) ELSE 0
       IN IF opts.Tty /\ isTerminalIn
          THEN /\ monitorCalls' = Append(monitorCalls,
                     [id |-> id, isTerminalIn |-> TRUE,
                      isTerminalOut |-> isTerminalOut, outFd |-> outFd])
               /\ \E r \in {Nil} \cup MonitorErrs :
                     /\ monitorErr' = r
                     /\ printed' = IF r # Nil THEN Append(printed, MsgMonitor)
                                   ELSE printed
          ELSE UNCHANGED <<monitorCalls, monitorErr, printed>>
    /\ pc' = "wait"
    /\ UNCHANGED parseVars
    /\ UNCHANGED <<opts, ret, returnCount, body, id, closer, defers, closedBy,
                   sawReady, sawDone, createErr, doCalls, resizeCalls>>
    /\ UNCHANGED unitVars

\* FinalWait as a non-blocking receive: nil when errCh holds nothing yet
FinalWait_NoBlock ==
    /\ pc = "wait"
    /\ IF errCh # <<>>
       THEN /\ errCh' = Tail(errCh)
            /\ sawDone' = sawDone + 1
            /\ ReturnWith(Head(errCh))
       ELSE /\ UNCHANGED <<errCh, sawDone>>
            /\ ReturnWith(Nil)
    /\ UNCHANGED parseVars
    /\ UNCHANGED <<opts, returnCount, body, id, closer, defers, closedBy, sawReady>>
    /\ UNCHANGED <<unit, unitErr, hijackedClosed, errChWrites, hijackCalls, upgrade>>
    /\ UNCHANGED envVars

\* FinalWait with the received error dropped
FinalWait_ReturnNil ==
    /\ pc = "wait"
    /\ errCh # <<>>
    /\ errCh' = Tail(errCh)
    /\ sawDone' = sawDone + 1
    /\ ReturnWith(Nil)
    /\ UNCHANGED parseVars
    /\ UNCHANGED <<opts, returnCount, body, id, closer, defers, closedBy, sawReady>>
    /\ UNCHANGED <<unit, unitErr, hijackedClosed, errChWrites, hijackCalls, upgrade>>
    /\ UNCHANGED envVars

\* if err := <-errCh; err != nil { return err }; return nil
FinalWait ==
    /\ pc = "wait"
    /\ errCh # <<>>
    /\ errCh' = Tail(errCh)
    /\ sawDone' = sawDone + 1
    /\ ReturnWith(Head(errCh))
    /\ UNCHANGED parseVars
    /\ UNCHANGED <<opts, returnCount, body, id, closer, defers, closedBy, sawReady>>
    /\ UNCHANGED <<unit, unitErr, hijackedClosed, errChWrites, hijackCalls, upgrade>>
    /\ UNCHANGED envVars

\* the deferred closer.Close(), registered last and therefore run first
DeferredClose ==
    /\ pc = "unwinding"
    /\ defers # <<>>
    /\ defers[Len(defers)] = "close"
    /\ closedBy' = Append(closedBy, "coordinator")
    /\ defers' = SubSeq(defers, 1, Len(defers) - 1)
    /\ UNCHANGED parseVars
    /\ UNCHANGED <<opts, pc, ret, returnCount, body, id, closer, sawReady, sawDone>>
    /\ UNCHANGED unitVars
    /\ UNCHANGED envVars

\* defer func() { if _, ok := <-hijacked; ok { fmt.Println(...) } }()
DeferredWait ==
    /\ pc = "unwinding"
    /\ defers # <<>>
    /\ defers[Len(defers)] = "waitHijacked"
    /\ unit = "sending" \/ hijackedClosed
    /\ IF unit = "sending"
       THEN /\ unit' = "relaying"
            /\ printed' = Append(printed, MsgHijack)
       ELSE UNCHANGED <<unit, printed>>
    /\ defers' = SubSeq(defers, 1, Len(defers) - 1)
    /\ UNCHANGED parseVars
    /\ UNCHANGED <<opts, pc, ret, returnCount, body, id, closer, closedBy,
                   sawReady, sawDone>>
    /\ UNCHANGED <<unitErr, hijackedClosed, errCh, errChWrites, hijackCalls, upgrade>>
    /\ UNCHANGED <<createErr, doCalls, monitorCalls, resizeCalls, monitorErr>>

\* Return with the deferred calls left unrun
Return_SkipDefers ==
    /\ pc = "unwinding"
    /\ pc' = "returned"
    /\ returnCount' = returnCount + 1
    /\ UNCHANGED parseVars
    /\ UNCHANGED <<opts, ret, body, id, closer, defers, closedBy, sawReady, sawDone>>
    /\ UNCHANGED unitVars
    /\ UNCHANGED envVars

\* Exec hands its result to the caller once every deferred call has run
Return ==
    /\ pc = "unwinding"
    /\ defers = <<>>
    /\ pc' = "returned"
    /\ returnCount' = returnCount + 1
    /\ UNCHANGED parseVars
    /\ UNCHANGED <<opts, ret, body, id, closer, defers, closedBy, sawReady, sawDone>>
    /\ UNCHANGED unitVars
    /\ UNCHANGED envVars

\* ------------------------------------------- the upgrade-and-relay unit

\* UnitCall with the start path built from the container name
UnitCall_ContainerPath ==
    /\ unit = "started"
    /\ LET stderr == IF opts.Tty THEN opts.OutputStream ELSE opts.ErrorStream IN
         hijackCalls' = Append(hijackCalls,
             [method |-> "POST", path |-> StartPath(opts.Container), tty |-> opts.Tty,
              in |-> opts.InputStream, stdout |-> opts.OutputStream,
              stderr |-> stderr])
    /\ unit' = "upgrading"
    /\ UNCHANGED parseVars
    /\ UNCHANGED <<opts, pc, ret, returnCount, body, id, closer, defers, closedBy,
                   sawReady, sawDone>>
    /\ UNCHANGED <<unitErr, hijackedClosed, errCh, errChWrites, upgrade>>
    /\ UNCHANGED envVars

\* UnitCall with ErrorStream as the error sink whatever Tty is
UnitCall_StderrNotMerged ==
    /\ unit = "started"
    /\ LET stderr == opts.ErrorStream IN
         hijackCalls' = Append(hijackCalls,
             [method |-> "POST", path |-> StartPath(id), tty |-> opts.Tty,
              in |-> opts.InputStream, stdout |-> opts.OutputStream,
              stderr |-> stderr])
    /\ unit' = "upgrading"
    /\ UNCHANGED parseVars
    /\ UNCHANGED <<opts, pc, ret, returnCount, body, id, closer, defers, closedBy,
                   sawReady, sawDone>>
    /\ UNCHANGED <<unitErr, hijackedClosed, errCh, errChWrites, upgrade>>
    /\ UNCHANGED envVars

\* the function passed to promise.Go: choice of stderr and the hijack2 call
UnitCall ==
    /\ unit = "started"
    /\ LET stderr == IF opts.Tty THEN opts.OutputStream ELSE opts.ErrorStream IN
         hijackCalls' = Append(hijackCalls,
             [method |-> "POST", path |-> StartPath(id), tty |-> opts.Tty,
              in |-> opts.InputStream, stdout |-> opts.OutputStream,
              stderr |-> stderr])
    /\ unit' = "upgrading"
    /\ UNCHANGED parseVars
    /\ UNCHANGED <<opts, pc, ret, returnCount, body, id, closer, defers, closedBy,
                   sawReady, sawDone>>
    /\ UNCHANGED <<unitErr, hijackedClosed, errCh, errChWrites, upgrade>>
    /\ UNCHANGED envVars

\* hijack2, upgrade failure: the ready channel is resolved (closed) and the
\* failure is the result
UpgradeFail ==
    /\ unit = "upgrading"
    /\ \E e \in UpgradeErrs :
         /\ upgrade' = e
         /\ unitErr' = e
    /\ hijackedClosed' = TRUE
    /\ unit' = "returning"
    /\ UNCHANGED parseVars
    /\ UNCHANGED <<opts, pc, ret, returnCount, body, id, closer, defers, closedBy,
                   sawReady, sawDone>>
    /\ UNCHANGED <<errCh, errChWrites, hijackCalls>>
    /\ UNCHANGED envVars

\* hijack2, upgrade success: the connection is acquired and offered on the
\* ready channel; the send blocks until a receiver takes it
UpgradeOK ==
    /\ unit = "upgrading"
    /\ upgrade' = "ok"
    /\ unit' = "sending"
    /\ UNCHANGED parseVars
    /\ UNCHANGED <<opts, pc, ret, returnCount, body, id, closer, defers, closedBy,
                   sawReady, sawDone>>
    /\ UNCHANGED <<unitErr, hijackedClosed, errCh, errChWrites, hijackCalls>>
    /\ UNCHANGED envVars

\* hijack2, the bidirectional copy: it ends with nil or the first I/O error,
\* and the ready channel is closed on the way out
Relay ==
    /\ unit = "relaying"
    /\ \E r \in {Nil} \cup RelayErrs : unitErr' = r
    /\ hijackedClosed' = TRUE
    /\ unit' = "returning"
    /\ UNCHANGED parseVars
    /\ UNCHANGED <<opts, pc, ret, returnCount, body, id, closer, defers, closedBy,
                   sawReady, sawDone>>
    /\ UNCHANGED <<errCh, errChWrites, hijackCalls, upgrade>>
    /\ UNCHANGED envVars

\* promise.Go: ch <- f() on a channel of capacity 1
UnitWrite ==
    /\ unit = "returning"
    /\ Len(errCh) < 1
    /\ errCh' = Append(errCh, unitErr)
    /\ errChWrites' = Append(errChWrites, "unit")
    /\ unit' = "done"
    /\ UNCHANGED parseVars
    /\ UNCHANGED <<opts, pc, ret, returnCount, body, id, closer, defers, closedBy,
                   sawReady, sawDone>>
    /\ UNCHANGED <<unitErr, hijackedClosed, hijackCalls, upgrade>>
    /\ UNCHANGED envVars

\* ------------------------------------------------- terminal-size monitor

\* a started monitor forwards a size change of the output terminal as a
\* resize request while the session's relay is still running
ResizeTick ==
    /\ monitorCalls # <<>>
    /\ monitorErr = Nil
    /\ monitorCalls[Len(monitorCalls)].isTerminalOut
    /\ unit # "done"
    /\ pc # "returned"
    /\ resizeCalls < MaxResize
    /\ resizeCalls' = resizeCalls + 1
    /\ UNCHANGED parseVars
    /\ UNCHANGED <<opts, pc, ret, returnCount, body, id, closer, defers, closedBy,
                   sawReady, sawDone>>
    /\ UNCHANGED unitVars
    /\ UNCHANGED <<createErr, doCalls, monitorCalls, printed, monitorErr>>

\* ------------------------------------------------------- specifications

Coordinator ==
    \/ Validate
    \/ Create
    \/ Decode
    \/ Launch
    \/ SelectHijacked
    \/ SelectErr
    \/ Monitor
    \/ FinalWait
    \/ DeferredClose
    \/ DeferredWait
    \/ Return

Unit ==
    \/ UnitCall
    \/ UpgradeFail
    \/ UpgradeOK
    \/ Relay
    \/ UnitWrite

Next ==
    \/ Coordinator
    \/ Unit
    \/ ResizeTick

Spec == Init /\ [][Next]_vars

\* every runnable goroutine is eventually scheduled, each call made returns
FairSpec == Spec /\ WF_vars(Coordinator) /\ WF_vars(Unit)

\* -------------------------------------------------- ParseRepositoryTag

\* strings are sequences of characters; the characters of the inputs
Chars == {"a", "b", ":", "/"}

\* bound on the length of the enumerated inputs of ParseRepositoryTag
MaxLen == 4

\* the two examples of the doc comment of ParseRepositoryTag
\* "localhost.localdomain:5000/samalba/hipache:latest"
ExampleTagged ==
    <<"l", "o", "c", "a", "l", "h", "o", "s", "t", ".", "l", "o", "c", "a",
      "l", "d", "o", "m", "a", "i", "n", ":", "5", "0", "0", "0", "/", "s",
      "a", "m", "a", "l", "b", "a", "/", "h", "i", "p", "a", "c", "h", "e",
      ":", "l", "a", "t", "e", "s", "t">>

\* "localhost.localdomain:5000/samalba/hipache"
ExampleUntagged ==
    <<"l", "o", "c", "a", "l", "h", "o", "s", "t", ".", "l", "o", "c", "a",
      "l", "d", "o", "m", "a", "i", "n", ":", "5", "0", "0", "0", "/", "s",
      "a", "m", "a", "l", "b", "a", "/", "h", "i", "p", "a", "c", "h", "e">>

\* "a:b/c"
ExampleSlashInSuffix == <<"a", ":", "b", "/", "c">>

\* "alpine"
ExampleAlpine == <<"a", "l", "p", "i", "n", "e">>

\* "latest"
Latest == <<"l", "a", "t", "e", "s", "t">>

\* the inputs given to ParseRepositoryTag
RepoTags ==
    UNION {[1..k -> Chars] : k \in 0..MaxLen}
      \cup {ExampleTagged, ExampleUntagged, ExampleSlashInSuffix, ExampleAlpine}

\* LastIndex that finds the first occurrence
LastIndex_First(s, c) ==
    IF \E i \in 1..Len(s) : s[i] = c
    THEN (CHOOSE i \in 1..Len(s) :
              s[i] = c /\ \A j \in 1..(i - 1) : s[j] # c) - 1
    ELSE -1

\* strings.LastIndex(s, c): 0-based index of the last c in s, -1 if none
LastIndex(s, c) ==
    IF \E i \in 1..Len(s) : s[i] = c
    THEN (CHOOSE i \in 1..Len(s) :
              s[i] = c /\ \A j \in (i + 1)..Len(s) : s[j] # c) - 1
    ELSE -1

\* strings.Contains(s, c)
Contains(s, c) == \E i \in 1..Len(s) : s[i] = c

\* ParseRepositoryTag without the test for "/" in the candidate tag
ParseRepositoryTag_NoSlashTest(s) ==
    LET n == LastIndex(s, ":") IN
      IF n < 0 THEN <<s, <<>>>>
      ELSE <<SubSeq(s, 1, n), SubSeq(s, n + 2, Len(s))>>

\* func ParseRepositoryTag(repoTag string) (repository string, tag string)
\* s[:n] is SubSeq(s, 1, n) and s[n+1:] is SubSeq(s, n + 2, Len(s))
ParseRepositoryTag(s) ==
    LET n == LastIndex(s, ":") IN
      IF n < 0 THEN <<s, <<>>>>
      ELSE LET t == SubSeq(s, n + 2, Len(s)) IN
             IF ~Contains(t, "/") THEN <<SubSeq(s, 1, n), t>>
             ELSE <<s, <<>>>>

\* a caller is about to call ParseRepositoryTag on some input
ParseInit ==
    /\ opts = [Container |-> "", Tty |-> FALSE, InputStream |-> "inPipe",
               OutputStream |-> "outBuf", ErrorStream |-> "errBuf"]
    /\ ExecEntry
    /\ repoTag \in RepoTags
    /\ parsePc = "call"
    /\ repository = <<>>
    /\ tag = <<>>

\* repository, tag := ParseRepositoryTag(repoTag)
ParseCall ==
    /\ parsePc = "call"
    /\ repository' = ParseRepositoryTag(repoTag)[1]
    /\ tag' = ParseRepositoryTag(repoTag)[2]
    /\ parsePc' = "done"
    /\ UNCHANGED repoTag
    /\ UNCHANGED <<opts, pc, ret, returnCount, body, id, closer, defers, closedBy,
                   sawReady, sawDone>>
    /\ UNCHANGED unitVars
    /\ UNCHANGED envVars

ParseNext == ParseCall

ParseSpec == ParseInit /\ [][ParseNext]_vars

\* ------------------------------------------------------------ properties

\* does the stack of deferred calls hold d
HasDeferred(d) == \E i \in 1..Len(defers) : defers[i] = d

\* the connections acquired by the upgrade so far
Acquired == IF upgrade = "ok" THEN {Conn} ELSE {}

\* C1: a connection the coordinator received from the ready channel is
\* closed exactly once over the session: never twice, never by anyone but
\* the coordinator, and not zero times once Exec has returned; no Close is
\* invoked when no connection was received.
C1_ClosedExactlyOnce ==
    /\ Len(closedBy) <= 1
    /\ \A i \in 1..Len(closedBy) : closedBy[i] = "coordinator"
    /\ (closer # Conn => closedBy = <<>>)
    /\ (pc = "returned" /\ closer = Conn => Len(closedBy) = 1)

C1_Witness ==
    /\ pc = "returned"
    /\ closer = Conn
    /\ closedBy = <<"coordinator">>
    /\ unitErr \in RelayErrs
    /\ monitorErr \in MonitorErrs

\* C2: under fair scheduling every call of Exec eventually returns, once,
\* with nil or an error.
C2_ExecReturns == <>(pc = "returned" /\ ret # None /\ returnCount = 1)

C2_Witness ==
    /\ pc = "returned"
    /\ unit = "done"
    /\ unitErr = Nil
    /\ ret = Nil
    /\ defers = <<>>
    /\ hijackedClosed

\* C3: when the upgrade fails, Exec returns that failure, whichever case
\* of the select fired, and every acquired connection has been closed.
C3_UpgradeFailureReturned ==
    (pc = "returned" /\ upgrade \in UpgradeErrs) =>
        /\ ret = upgrade
        /\ returnCount = 1
        /\ \A c \in Acquired : closedBy # <<>>

C3_Witness ==
    /\ pc = "returned"
    /\ upgrade \in UpgradeErrs
    /\ closer = Nil
    /\ sawDone = 1
    /\ ret = upgrade

\* C4: when the upgrade succeeds and the relay ends without an I/O error,
\* Exec returns nil, once; and nil is the result only after the coordinator
\* received both the connection and the completion value.
C4_NilAfterReadyAndDone ==
    /\ (pc = "returned" /\ upgrade = "ok" /\ unitErr = Nil) =>
           (ret = Nil /\ returnCount = 1)
    /\ (ret = Nil => sawReady /\ sawDone = 1)

C4_Witness ==
    /\ pc = "returned"
    /\ upgrade = "ok"
    /\ unitErr = Nil
    /\ ret = Nil
    /\ sawReady
    /\ sawDone = 1
    /\ returnCount = 1

\* C5: from the moment the coordinator owns the connection its Close is
\* either still registered as a deferred call or has already run, and it
\* has run by the time Exec has returned.
C5_ClosedBeforeReturn ==
    closer = Conn =>
        /\ (pc = "returned" => closedBy # <<>>)
        /\ (pc # "returned" => (HasDeferred("close") \/ closedBy # <<>>))

C5_Witness ==
    /\ pc = "unwinding"
    /\ closer = Conn
    /\ closedBy # <<>>
    /\ defers = <<"waitHijacked">>
    /\ monitorErr \in MonitorErrs

\* C6: with an empty Container, Exec fails with NoSuchContainer at its
\* first step and issues no create, start or resize request, calls no
\* monitor and launches no unit.
C6_EmptyContainerNoCalls ==
    opts.Container = "" =>
        /\ doCalls = <<>>
        /\ hijackCalls = <<>>
        /\ monitorCalls = <<>>
        /\ resizeCalls = 0
        /\ unit = "none"
        /\ (pc # "entry" => pc \in {"unwinding", "returned"} /\ ret = ErrNoSuchContainer)

C6_Witness ==
    /\ opts.Container = ""
    /\ pc = "returned"
    /\ ret = ErrNoSuchContainer
    /\ returnCount = 1

\* the identifier field of a creation response is empty or absent
IdMissing(b) == ~b.wellFormed \/ ~b.hasId \/ b.Id \in {"", "null"}

\* C7 as stated: every creation response whose identifier is empty or
\* absent makes Exec fail with the missing-operation-id error, and the
\* start call is never issued.
C7_Original ==
    (createErr = Nil /\ IdMissing(body)) =>
        /\ hijackCalls = <<>>
        /\ (pc = "returned" => ret = ErrNoId)

\* C7 amended: a creation response that decodes as JSON and whose
\* identifier is empty or absent makes Exec fail with the
\* missing-operation-id error; one that does not decode makes Exec fail
\* with the decoding error; in both cases the result is neither nil nor a
\* transport error and the start call is never issued.
C7_MissingIdError ==
    (createErr = Nil /\ IdMissing(body)) =>
        /\ hijackCalls = <<>>
        /\ unit = "none"
        /\ (pc = "returned" =>
              /\ ret = (IF body.wellFormed THEN ErrNoId ELSE JsonErr)
              /\ ret # Nil
              /\ ret \notin TransportErrs)

C7_Witness ==
    /\ pc = "returned"
    /\ createErr = Nil
    /\ body.wellFormed
    /\ ~body.hasId
    /\ ret = ErrNoId

\* C8: when the create request fails, Exec returns the error c.do gave,
\* unchanged, and starts neither the unit nor the monitor.
C8_CreateErrorUnchanged ==
    createErr \in TransportErrs =>
        /\ pc \in {"unwinding", "returned"}
        /\ ret = createErr
        /\ unit = "none"
        /\ hijackCalls = <<>>
        /\ monitorCalls = <<>>

C8_Witness ==
    /\ pc = "returned"
    /\ createErr \in TransportErrs
    /\ ret = createErr
    /\ Len(doCalls) = 1

\* C9: a creation response with a non-empty identifier leads to at most one
\* start call, to exactly one by the time Exec has returned, and the path of
\* that call is "/exec/<id>/start" for the identifier of the response.
C9_StartOnceWithId ==
    /\ Len(hijackCalls) <= 1
    /\ (createErr = Nil /\ body.wellFormed /\ body.hasId
          /\ body.Id \notin {"", "null", "number"}) =>
           /\ (pc = "returned" => Len(hijackCalls) = 1)
           /\ \A i \in 1..Len(hijackCalls) :
                 /\ hijackCalls[i].path = "/exec/" \o body.Id \o "/start"
                 /\ hijackCalls[i].method = "POST"

C9_Witness ==
    /\ pc = "returned"
    /\ body.Id = "e2"
    /\ Len(hijackCalls) = 1
    /\ hijackCalls[1].path = "/exec/e2/start"

\* C10: a failure of monitorTtySize does not end the session and does not
\* decide its result: after it the coordinator still receives the
\* completion value of the unit, and Exec returns that value, as it does in
\* the sessions where the monitor succeeds or is not called.
C10_MonitorFailureNotFatal ==
    /\ (monitorErr \in MonitorErrs /\ pc \in {"unwinding", "returned"}) =>
           (unit = "done" /\ sawDone = 1 /\ ret = unitErr)
    /\ (monitorErr \in MonitorErrs =>
           MsgMonitor \in {printed[i] : i \in 1..Len(printed)})
    /\ (pc = "returned" /\ unit # "none") => ret = unitErr

C10_Witness ==
    /\ pc = "returned"
    /\ monitorErr \in MonitorErrs
    /\ upgrade = "ok"
    /\ ret = Nil
    /\ sawDone = 1

\* the position of the last ":" of s, 0 when s has none
LastColon(s) ==
    IF \E i \in 1..Len(s) : s[i] = ":"
    THEN CHOOSE i \in 1..Len(s) : s[i] = ":" /\ \A j \in (i + 1)..Len(s) : s[j] # ":"
    ELSE 0

\* C11: ParseRepositoryTag splits at the last colon and takes what follows
\* it as the tag only if that has no "/"; with no colon, or a "/" after the
\* last colon, the result is the whole input and an empty tag. The four
\* examples give the results stated.
C11_SplitAtLastColon ==
    parsePc = "done" =>
        /\ LET k == LastColon(repoTag) IN
             IF k > 0 /\ \A j \in (k + 1)..Len(repoTag) : repoTag[j] # "/"
             THEN /\ repository = [i \in 1..(k - 1) |-> repoTag[i]]
                  /\ tag = [i \in 1..(Len(repoTag) - k) |-> repoTag[k + i]]
             ELSE /\ repository = repoTag
                  /\ tag = <<>>
        /\ (repoTag = ExampleTagged =>
               /\ repository = ExampleUntagged
               /\ tag = Latest)
        /\ (repoTag \in {ExampleUntagged, ExampleSlashInSuffix, ExampleAlpine} =>
               /\ repository = repoTag
               /\ tag = <<>>)

C11_Witness ==
    /\ parsePc = "done"
    /\ repoTag = ExampleTagged
    /\ repository = ExampleUntagged
    /\ tag = Latest

\* C18: the tag returned has neither "/" nor ":"; a non-empty tag and the
\* repository joined by ":" give back the input; with an empty tag the
\* repository is the input, or the input without its trailing colon.
C18_ResultsRebuildInput ==
    parsePc = "done" =>
        /\ \A i \in 1..Len(tag) : tag[i] \notin {"/", ":"}
        /\ (tag # <<>> => repository \o <<":">> \o tag = repoTag)
        /\ (tag = <<>> =>
               (repository = repoTag \/ repository \o <<":">> = repoTag))

C18_Witness ==
    /\ parsePc = "done"
    /\ repoTag = <<"a", "/", "b", ":">>
    /\ repository = <<"a", "/", "b">>
    /\ tag = <<>>

\* C12: in a session that launched the unit, the unit is the only writer of
\* errCh and writes at most one value; when Exec has returned, that one
\* value has been written, the channel is empty again and the coordinator
\* received the value exactly once.
C12_CompletionReceivedOnce ==
    /\ Len(errChWrites) <= 1
    /\ \A i \in 1..Len(errChWrites) : errChWrites[i] = "unit"
    /\ sawDone <= Len(errChWrites)
    /\ (pc = "returned" /\ unit # "none") =>
           /\ unit = "done"
           /\ errChWrites = <<"unit">>
           /\ errCh = <<>>
           /\ sawDone = 1

C12_Witness ==
    /\ pc = "returned"
    /\ unit = "done"
    /\ errChWrites = <<"unit">>
    /\ errCh = <<>>
    /\ sawDone = 1
    /\ closer = Conn
    /\ unitErr \in RelayErrs

\* C13: once the unit has been launched, the value Exec returns is the
\* value the unit wrote to errCh, whether or not a connection was received
\* from the ready channel; receiving from the ready channel sets no result.
C13_ReturnsCompletionValue ==
    /\ (pc \in {"unwinding", "returned"} /\ unit # "none") =>
           /\ unit = "done"
           /\ ret = unitErr
           /\ ret \in {Nil} \cup UpgradeErrs \cup RelayErrs
    /\ (pc \in {"tty", "wait"} => ret = None)

C13_Witness ==
    /\ pc = "returned"
    /\ unit = "done"
    /\ closer = Conn
    /\ ret = unitErr
    /\ ret \in RelayErrs
    /\ monitorErr = Nil

\* the stream is backed by an interactive terminal device
IsTerminalDevice(s) == s \in {"stdinFile", "stdoutFile"}

\* C14: the size monitor is started at most once in a session, and only
\* when Tty is set and the input stream is backed by an interactive
\* terminal device; it is given whether the output is a terminal, and that
\* does not decide whether it is started.
C14_MonitorOnlyForTerminalInput ==
    /\ Len(monitorCalls) <= 1
    /\ (monitorCalls # <<>> =>
           /\ opts.Tty
           /\ IsTerminalDevice(opts.InputStream)
           /\ monitorCalls[1].isTerminalOut = IsTerminalDevice(opts.OutputStream))
    /\ (pc = "wait" /\ opts.Tty /\ IsTerminalDevice(opts.InputStream) =>
           Len(monitorCalls) = 1)

\* C15: in a session whose upgrade fails, Exec returns the failure and
\* neither calls the size monitor nor issues a resize request, whichever
\* way the failing unit and the select of the coordinator interleave.
C15_NoMonitorAfterUpgradeFailure ==
    upgrade \in UpgradeErrs =>
        /\ monitorCalls = <<>>
        /\ resizeCalls = 0
        /\ (pc = "returned" => ret = upgrade)

\* C16: once the unit has been launched the deferred receive on the ready
\* channel is registered at the bottom of the stack of deferred calls, so
\* it runs after the deferred Close; Exec has not returned before it ran,
\* and it ran only with the channel closed or after taking a further value
\* and printing the "Hijack did not finish" message.
C16_ReturnWaitsForHijacked ==
    /\ (unit # "none" /\ pc \in {"select", "tty", "wait"}) =>
           (defers # <<>> /\ defers[1] = "waitHijacked")
    /\ (HasDeferred("close") =>
           (defers = <<"waitHijacked", "close">> /\ closedBy = <<>>))
    /\ (unit # "none" /\ ~HasDeferred("waitHijacked")) =>
           /\ hijackedClosed \/ MsgHijack \in {printed[i] : i \in 1..Len(printed)}
           /\ defers = <<>>
           /\ (closer = Conn => closedBy = <<"coordinator">>)
    /\ (pc = "returned" => defers = <<>>)

C16_Witness ==
    /\ pc = "returned"
    /\ unit = "done"
    /\ closer = Conn
    /\ defers = <<>>
    /\ hijackedClosed
    /\ closedBy = <<"coordinator">>
    /\ ret = Nil
    /\ monitorCalls = <<>>

\* C17: hijack2 is given the caller's InputStream and OutputStream, the
\* Tty flag of the options, and as error sink the OutputStream when Tty is
\* set and the ErrorStream when it is not.
C17_HijackStreams ==
    \A i \in 1..Len(hijackCalls) :
        /\ hijackCalls[i].in = opts.InputStream
        /\ hijackCalls[i].stdout = opts.OutputStream
        /\ hijackCalls[i].tty = opts.Tty
        /\ (opts.Tty => hijackCalls[i].stderr = opts.OutputStream)
        /\ (~opts.Tty => hijackCalls[i].stderr = opts.ErrorStream)

C17_Witness ==
    /\ Len(hijackCalls) = 1
    /\ opts.Tty
    /\ hijackCalls[1].tty
    /\ hijackCalls[1].stderr = "outBuf"
    /\ hijackCalls[1].stdout = "outBuf"
    /\ hijackCalls[1].in = "inPipe"

====
